---- MODULE Spec2Model ----
(***************************************************************************)
(* Model of the /dev/h2o driver (src/H2o/h2o-impl.c): readH2O and writeH2O *)
(* run by concurrent callers over one mutex and three conditions           *)
(* (waitingMolecule, waitingHydrogen, cond), a circular byte buffer        *)
(* (bufferH2O, in, out, size) and the two particle counters (hydrogens,    *)
(* oxygens).                                                               *)
(*                                                                         *)
(* initH2O and exitH2O take no lock.  initH2O registers the device first    *)
(* (line 154) and sets the counters, the mutex and the buffer afterwards    *)
(* (lines 160-175): a call can get through m_lock once m_init has run (line *)
(* 163), before the buffer is allocated and zeroed.  What m_lock does on a  *)
(* mutex that m_init has not yet set up is kmutex's business and is not     *)
(* modelled.  exitH2O, which frees the buffer, may run while calls are in   *)
(* progress.                                                                *)
(*                                                                         *)
(* Every caller makes one call.  Callers 1..NumWriters call writeH2O,      *)
(* the others call readH2O; the writers, and the readers, are numbered in  *)
(* the order in which they first take the mutex.  A handler is cut into    *)
(* one action per piece of code it runs between two points where the mutex *)
(* changes hands or a loop iterates; program counters name those points.   *)
(***************************************************************************)
EXTENDS Integers, Sequences, FiniteSets, TLC

\* Bounds of the model.
NumWriters == 3
NumReaders == 2
MaxPayload == 1
MaxRead == 2
\* How many signals are delivered, and how many byte copies fail, in one run.
MaxSignals == 1
MaxFaults == 1
\* How many callers enter a handler before initH2O has returned.
MaxEarly == 1
\* The driver's buffer holds 8192 bytes (h2o-impl.c:57).  The model keeps the
\* macro's name and every use of it, with a capacity small enough for the
\* indices to wrap and for the writers to fill the buffer.
MAX_SIZE == 2

\* The error codes the handlers return (negated errno values).
EINTR == -4
EFAULT == -14

Writers == 1..NumWriters
Readers == (NumWriters + 1)..(NumWriters + NumReaders)
Threads == Writers \cup Readers

\* The bytes of caller w's payload identify w and their position in it.
Byte(w, i) == 10 * w + i
Payload(w, n) == [i \in 1..n |-> Byte(w, i)]
ReadLens == 1..MaxRead

VARIABLES
  pc,          \* where each caller is in its handler
  mutex,       \* the caller holding the mutex, 0 when it is free
  wake,        \* each caller's state in c_wait: "awake", "asleep", "signalled", "interrupted"
  hydrogens, oxygens,
  in, out, size, bufferH2O,
  arg,         \* the call's input: the payload (writeH2O), ucount (readH2O)
  count,       \* the handler's local count, its return value once returned
  k,           \* the handler's local k
  got,         \* the bytes copy_to_user has stored in each reader's buffer
  subs,        \* history: the writers in the order they executed hydrogens++
  stream,      \* history: every byte stored in bufferH2O, in order
  order,       \* history: the readers in the order they left their wait loop
  mol,         \* history: for each reader, the last two of subs when it left the loop
  pairs,       \* history: how many times lines 335-336 have run
  swept,       \* history: whether the caller has broadcast since its wait was cancelled
  callers,     \* environment: the callers that will make their call
  signals,     \* environment: whether signals are delivered to sleeping callers
  faults,      \* environment: whether a user buffer may be an invalid address
  unloads,     \* environment: whether the module may be unloaded during the run
  early,       \* environment: whether calls are made while initH2O is running
  freed,       \* whether exitH2O has run: bufferH2O points to a freed block
  stage        \* how far initH2O has got: "registered", "counted", "kinit",
               \* "alloced", "done", or "failed" (kmalloc returned NULL)

shared == <<hydrogens, oxygens, in, out, size, bufferH2O>>
locals == <<arg, count, k, got>>
history == <<subs, stream, order, mol, pairs, swept>>
env == <<callers, signals, faults, unloads, early, freed, stage>>
vars == <<pc, mutex, wake, shared, locals, history, env>>

Min(a, b) == IF a < b THEN a ELSE b

\* The cells of the buffer, and bufferH2O before kmalloc: a block with no cell.
Cells == 0..(MAX_SIZE - 1)
NULL == [i \in {} |-> 0]

\* An indeterminate byte: the content of a cell of the block kmalloc has just
\* returned, or of a cell that the allocator or a new owner has written after
\* kfree.  Junk is not a value a byte takes: a cell holding it holds any of the
\* 256 values, 0 and the bytes the writers store included, and two cells
\* holding it, or two reads of one such cell, need not hold or give the same
\* one.  The handlers only move bytes and never branch on one, so every choice
\* of values for the indeterminate bytes gives the same run.
Junk == -1
JunkBlock == [i \in Cells |-> Junk]

\* The block b after the cells in s have become indeterminate.
Scribbled(b, s) == [i \in Cells |-> IF i \in s THEN Junk ELSE b[i]]

\* The last n elements of s (all of s when it is shorter).
LastN(s, n) == SubSeq(s, Len(s) - Min(n, Len(s)) + 1, Len(s))

RECURSIVE ConcatPayloads(_)
ConcatPayloads(ws) ==
  IF ws = <<>> THEN <<>> ELSE arg[Head(ws)] \o ConcatPayloads(Tail(ws))

Take(s, n) == SubSeq(s, 1, Min(n, Len(s)))

IsPrefix(s, t) == Len(s) <= Len(t) /\ SubSeq(t, 1, Len(s)) = s

\* Succ with the index running off the end of the buffer.
SuccNoWrap(i) == i + 1

\* The next index of the circular buffer, lines 254 and 302.
Succ(i) == (i + 1) % MAX_SIZE

----------------------------------------------------------------------------
(* kmutex: m_lock / m_unlock / c_wait / c_broadcast (kmutex.h, spec section 5) *)

\* The condition a caller sleeping at program counter l waits on.
CondOf(l) ==
  CASE l \in {"r_sleepH", "w_sleepH"} -> "waitingHydrogen"
    [] l = "w_sleepM" -> "waitingMolecule"
    [] l = "w_sleepC" -> "cond"
    [] OTHER -> "none"

\* c_broadcast(c): every caller asleep on c is made runnable.
Broadcast(c, wk) ==
  [t \in Threads |->
     IF wk[t] = "asleep" /\ CondOf(pc[t]) = c THEN "signalled" ELSE wk[t]]

\* History of a c_broadcast by caller t: it comes after a cancelled wait of t
\* when t's count is -EINTR.
Sweep(t) == [swept EXCEPT ![t] = @ \/ count[t] = EINTR]

\* The callers that have entered a handler.
Early == {t \in Threads : pc[t] # "idle"}

\* m_lock by a caller entering its handler: the callers of a kind are numbered
\* in the order they get the mutex here.  The mutex can be taken once m_init
\* has run, and no call starts after initH2O has failed and unregistered the
\* device.
Lock(t, kind, to) ==
  /\ t \in callers
  /\ pc[t] = "idle"
  /\ \/ stage = "done"
     \/ /\ early
        /\ stage \in {"kinit", "alloced"}
        /\ Cardinality(Early) < MaxEarly
  /\ \A u \in kind : u < t => pc[u] # "idle"
  /\ mutex = 0
  /\ mutex' = t
  /\ pc' = [pc EXCEPT ![t] = to]

\* The first half of c_wait: the caller releases the mutex and sleeps.
Sleep(t, at) ==
  /\ pc' = [pc EXCEPT ![t] = at]
  /\ wake' = [wake EXCEPT ![t] = "asleep"]
  /\ mutex' = 0

\* The second half of c_wait: a woken caller takes the mutex again.
Reacquire(t, at) ==
  /\ pc[t] = at
  /\ wake[t] \in {"signalled", "interrupted"}
  /\ mutex = 0
  /\ mutex' = t

\* The callers a signal has reached, and those that ran into an invalid
\* address (a failed byte copy, the fault inside printk at line 277, the store
\* through a NULL bufferH2O at line 295).
Signalled == {t \in Threads : wake[t] = "interrupted" \/ count[t] = EINTR}
Faulted == {t \in Threads : count[t] = EFAULT \/ pc[t] = "w_oops"}

\* A signal reaches a caller asleep in c_wait, which then returns nonzero.
Cancel(t) ==
  /\ signals
  /\ Cardinality(Signalled) < MaxSignals
  /\ wake[t] = "asleep"
  /\ wake' = [wake EXCEPT ![t] = "interrupted"]
  /\ UNCHANGED <<pc, mutex, shared, locals, history, env>>

----------------------------------------------------------------------------
(* readH2O *)

\* A caller enters readH2O: count = ucount; m_lock(&mutex), lines 212-218.
ReadLock(r) ==
  /\ Lock(r, Readers, "r_reg")
  /\ count' = [count EXCEPT ![r] = arg[r]]
  /\ UNCHANGED <<wake, shared, arg, k, got, subs, stream, order, mol, pairs, swept, env>>

\* oxygens++, line 221.
ReadRegister(r) ==
  /\ pc[r] = "r_reg"
  /\ oxygens' = oxygens + 1
  /\ pc' = [pc EXCEPT ![r] = "r_gate"]
  /\ UNCHANGED <<mutex, wake, hydrogens, in, out, size, bufferH2O, locals, history, env>>

\* NotEnoughHydrogens with the loop left on the first hydrogen.
NotEnoughHydrogensOffByOne == hydrogens < 1

\* The guard of readH2O's wait loop, line 225.
NotEnoughHydrogens == hydrogens < 2

\* Clamp with the request left as the caller made it.
ClampNone(c, s) == c

\* if (count > size) count = size, lines 238-241.
Clamp(c, s) == IF c > s THEN s ELSE c

\* One test of the wait loop (225-229) and, once it is left, lines 238-241.
ReadGate(r) ==
  /\ pc[r] = "r_gate"
  /\ IF NotEnoughHydrogens
       THEN /\ Sleep(r, "r_sleepH")
            /\ UNCHANGED <<count, k, order, mol>>
       ELSE /\ pc' = [pc EXCEPT ![r] = "r_copy"]
            /\ count' = [count EXCEPT ![r] = Clamp(count[r], size)]
            /\ k' = [k EXCEPT ![r] = 0]
            /\ order' = Append(order, r)
            /\ mol' = [mol EXCEPT ![r] = LastN(subs, 2)]
            /\ UNCHANGED <<mutex, wake>>
  /\ UNCHANGED <<shared, arg, got, subs, stream, pairs, swept, env>>

\* c_wait returns, lines 229-236.
ReadWake(r) ==
  /\ Reacquire(r, "r_sleepH")
  /\ IF wake[r] = "interrupted"
       THEN /\ count' = [count EXCEPT ![r] = EINTR]
            /\ pc' = [pc EXCEPT ![r] = "r_finally"]
       ELSE /\ pc' = [pc EXCEPT ![r] = "r_gate"]
            /\ UNCHANGED count
  /\ wake' = [wake EXCEPT ![r] = "awake"]
  /\ UNCHANGED <<shared, arg, k, got, history, env>>

\* The test of the copy loop and the copy of one byte, lines 244-254.
ReadCopy(r) ==
  /\ pc[r] = "r_copy"
  /\ IF k[r] < count[r]
       THEN \/ /\ faults                     \* copy_to_user fails
               /\ Cardinality(Faulted) < MaxFaults
               /\ count' = [count EXCEPT ![r] = EFAULT]
               /\ pc' = [pc EXCEPT ![r] = "r_finally"]
               /\ UNCHANGED <<out, got>>
            \/ /\ got' = [got EXCEPT ![r] = Append(@, bufferH2O[out])]
               /\ out' = Succ(out)
               /\ pc' = [pc EXCEPT ![r] = "r_size"]
               /\ UNCHANGED count
       ELSE /\ pc' = [pc EXCEPT ![r] = "r_finally"]
            /\ UNCHANGED <<out, got, count>>
  /\ UNCHANGED <<mutex, wake, hydrogens, oxygens, in, size, bufferH2O, arg, k, history, env>>

\* size--, line 255, and the k++ of the loop.
ReadCount(r) ==
  /\ pc[r] = "r_size"
  /\ size' = size - 1
  /\ k' = [k EXCEPT ![r] = @ + 1]
  /\ pc' = [pc EXCEPT ![r] = "r_copy"]
  /\ UNCHANGED <<mutex, wake, hydrogens, oxygens, in, out, bufferH2O, arg, count, got, history, env>>

\* c_broadcast(&cond), line 261.
ReadFinally(r) ==
  /\ pc[r] = "r_finally"
  /\ wake' = Broadcast("cond", wake)
  /\ swept' = Sweep(r)
  /\ pc' = [pc EXCEPT ![r] = "r_unlock"]
  /\ UNCHANGED <<mutex, shared, locals, subs, stream, order, mol, pairs, env>>

\* ReadReturn with the return reached without m_unlock.
ReadReturnLocked(r) ==
  /\ pc[r] = "r_unlock"
  /\ pc' = [pc EXCEPT ![r] = "done"]
  /\ UNCHANGED <<mutex, wake, shared, locals, history, env>>

\* m_unlock(&mutex); return count, lines 263-265.
ReadReturn(r) ==
  /\ pc[r] = "r_unlock"
  /\ mutex' = 0
  /\ pc' = [pc EXCEPT ![r] = "done"]
  /\ UNCHANGED <<wake, shared, locals, history, env>>

----------------------------------------------------------------------------
(* writeH2O *)

\* A caller enters writeH2O: count = ucount; m_lock(&mutex), lines 269-277.
\* The printk of line 277 formats buf with %s before copy_from_user has
\* checked it: with an invalid buf the caller either goes on (a printk that
\* does not read the string) or faults inside printk and stops there for good,
\* holding the mutex.
WriteLock(w) ==
  /\ \/ Lock(w, Writers, "w_gate")
     \/ /\ faults
        /\ Cardinality(Faulted) < MaxFaults
        /\ Lock(w, Writers, "w_oops")
  /\ count' = [count EXCEPT ![w] = Len(arg[w])]
  /\ UNCHANGED <<wake, shared, arg, k, got, subs, stream, order, mol, pairs, swept, env>>

\* TooMuchHydrogen with the gate closing one hydrogen late.
TooMuchHydrogenOffByOne == hydrogens > 2

\* The guard of writeH2O's entry loop, line 280.
TooMuchHydrogen == hydrogens >= 2

\* One test of the entry loop, lines 280-284, and the start of the copy loop.
WriteGate(w) ==
  /\ pc[w] = "w_gate"
  /\ IF TooMuchHydrogen
       THEN /\ Sleep(w, "w_sleepM")
            /\ UNCHANGED k
       ELSE /\ pc' = [pc EXCEPT ![w] = "w_copy"]
            /\ k' = [k EXCEPT ![w] = 0]
            /\ UNCHANGED <<mutex, wake>>
  /\ UNCHANGED <<shared, arg, count, got, history, env>>

\* WriteWakeM with the cancelled writer giving back a hydrogen it never added.
WriteWakeMGivesBack(w) ==
  /\ Reacquire(w, "w_sleepM")
  /\ IF wake[w] = "interrupted"
       THEN /\ count' = [count EXCEPT ![w] = EINTR]
            /\ pc' = [pc EXCEPT ![w] = "w_finally"]
            /\ hydrogens' = hydrogens - 1
       ELSE /\ pc' = [pc EXCEPT ![w] = "w_gate"]
            /\ UNCHANGED <<count, hydrogens>>
  /\ wake' = [wake EXCEPT ![w] = "awake"]
  /\ UNCHANGED <<oxygens, in, out, size, bufferH2O, arg, k, got, history, env>>

\* c_wait(&waitingMolecule) returns, lines 284-291.
WriteWakeM(w) ==
  /\ Reacquire(w, "w_sleepM")
  /\ IF wake[w] = "interrupted"
       THEN /\ count' = [count EXCEPT ![w] = EINTR]
            /\ pc' = [pc EXCEPT ![w] = "w_finally"]
       ELSE /\ pc' = [pc EXCEPT ![w] = "w_gate"]
            /\ UNCHANGED count
  /\ wake' = [wake EXCEPT ![w] = "awake"]
  /\ UNCHANGED <<shared, arg, k, got, history, env>>

\* The test of the copy loop and the copy of one byte, lines 293-302.  While
\* bufferH2O is NULL the copy stores through a null pointer: the caller stops
\* there for good, holding the mutex.
WriteCopy(w) ==
  /\ pc[w] = "w_copy"
  /\ IF k[w] < count[w]
       THEN \/ /\ faults                     \* copy_from_user fails; it may
               /\ Cardinality(Faulted) < MaxFaults   \* zero the byte it could not copy
               /\ count' = [count EXCEPT ![w] = EFAULT]
               /\ pc' = [pc EXCEPT ![w] = "w_finally"]
               /\ bufferH2O' \in
                    IF bufferH2O = NULL THEN {NULL}
                    ELSE {bufferH2O, [bufferH2O EXCEPT ![in] = 0]}
               /\ UNCHANGED <<in, stream>>
            \/ /\ bufferH2O # NULL
               /\ bufferH2O' = [bufferH2O EXCEPT ![in] = arg[w][k[w] + 1]]
               /\ in' = Succ(in)
               /\ stream' = Append(stream, arg[w][k[w] + 1])
               /\ pc' = [pc EXCEPT ![w] = "w_size"]
               /\ UNCHANGED count
            \/ /\ bufferH2O = NULL
               /\ pc' = [pc EXCEPT ![w] = "w_oops"]
               /\ UNCHANGED <<in, bufferH2O, stream, count>>
       ELSE /\ pc' = [pc EXCEPT ![w] = "w_inc"]
            /\ UNCHANGED <<in, bufferH2O, stream, count>>
  /\ UNCHANGED <<mutex, wake, hydrogens, oxygens, out, size, arg, k, got, subs, order, mol, pairs, swept, env>>

\* size++, line 303, and the k++ of the loop.
WriteCount(w) ==
  /\ pc[w] = "w_size"
  /\ size' = size + 1
  /\ k' = [k EXCEPT ![w] = @ + 1]
  /\ pc' = [pc EXCEPT ![w] = "w_copy"]
  /\ UNCHANGED <<mutex, wake, hydrogens, oxygens, in, out, bufferH2O, arg, count, got, history, env>>

\* hydrogens++; c_broadcast(&waitingHydrogen), lines 305-306.
WriteSubmit(w) ==
  /\ pc[w] = "w_inc"
  /\ hydrogens' = hydrogens + 1
  /\ wake' = Broadcast("waitingHydrogen", wake)
  /\ swept' = Sweep(w)
  /\ subs' = Append(subs, w)
  /\ pc' = [pc EXCEPT ![w] = "w_waitH"]
  /\ UNCHANGED <<mutex, oxygens, in, out, size, bufferH2O, locals, stream, order, mol, pairs, env>>

\* One test of the loop of lines 308-312.
WriteWaitH(w) ==
  /\ pc[w] = "w_waitH"
  /\ IF hydrogens < 2
       THEN Sleep(w, "w_sleepH")
       ELSE /\ pc' = [pc EXCEPT ![w] = "w_waitO"]
            /\ UNCHANGED <<mutex, wake>>
  /\ UNCHANGED <<shared, locals, history, env>>

\* c_wait(&waitingHydrogen) returns, lines 312-319.
WriteWakeH(w) ==
  /\ Reacquire(w, "w_sleepH")
  /\ IF wake[w] = "interrupted"
       THEN /\ count' = [count EXCEPT ![w] = EINTR]
            /\ pc' = [pc EXCEPT ![w] = "w_finally"]
       ELSE /\ pc' = [pc EXCEPT ![w] = "w_waitH"]
            /\ UNCHANGED count
  /\ wake' = [wake EXCEPT ![w] = "awake"]
  /\ UNCHANGED <<shared, arg, k, got, history, env>>

\* NoOxygen with the writer never waiting for a reader.
NoOxygenIgnored == FALSE

\* The guard of the loop of line 320.
NoOxygen == oxygens < 1

\* One test of the loop of lines 320-324.
WriteWaitO(w) ==
  /\ pc[w] = "w_waitO"
  /\ IF NoOxygen
       THEN Sleep(w, "w_sleepC")
       ELSE /\ pc' = [pc EXCEPT ![w] = "w_pair"]
            /\ UNCHANGED <<mutex, wake>>
  /\ UNCHANGED <<shared, locals, history, env>>

\* c_wait(&cond) returns, lines 324-332: a caller woken by a broadcast
\* broadcasts cond itself (line 331) before it tests the loop again.
WriteWakeC(w) ==
  /\ Reacquire(w, "w_sleepC")
  /\ IF wake[w] = "interrupted"
       THEN /\ count' = [count EXCEPT ![w] = EINTR]
            /\ pc' = [pc EXCEPT ![w] = "w_finally"]
            /\ wake' = [wake EXCEPT ![w] = "awake"]
            /\ UNCHANGED swept
       ELSE /\ pc' = [pc EXCEPT ![w] = "w_waitO"]
            /\ wake' = Broadcast("cond", [wake EXCEPT ![w] = "awake"])
            /\ swept' = Sweep(w)
            /\ UNCHANGED count
  /\ UNCHANGED <<shared, arg, k, got, subs, stream, order, mol, pairs, env>>

\* The guard of line 333.
Molecule == hydrogens > 0 /\ oxygens > 0

\* The test of line 333.
WritePair(w) ==
  /\ pc[w] = "w_pair"
  /\ pc' = [pc EXCEPT ![w] = IF Molecule THEN "w_dec" ELSE "w_finally"]
  /\ UNCHANGED <<mutex, wake, shared, locals, history, env>>

\* WriteDecrement with each pairing taking both hydrogens of the molecule.
WriteDecrementOfTwo(w) ==
  /\ pc[w] = "w_dec"
  /\ hydrogens' = hydrogens - 2
  /\ oxygens' = oxygens - 1
  /\ wake' = Broadcast("waitingMolecule", wake)
  /\ swept' = Sweep(w)
  /\ pairs' = pairs + 1
  /\ pc' = [pc EXCEPT ![w] = "w_finally"]
  /\ UNCHANGED <<mutex, in, out, size, bufferH2O, locals, subs, stream, order, mol, env>>

\* hydrogens--; oxygens--; c_broadcast(&waitingMolecule), lines 335-337.
WriteDecrement(w) ==
  /\ pc[w] = "w_dec"
  /\ hydrogens' = hydrogens - 1
  /\ oxygens' = oxygens - 1
  /\ wake' = Broadcast("waitingMolecule", wake)
  /\ swept' = Sweep(w)
  /\ pairs' = pairs + 1
  /\ pc' = [pc EXCEPT ![w] = "w_finally"]
  /\ UNCHANGED <<mutex, in, out, size, bufferH2O, locals, subs, stream, order, mol, env>>

\* m_unlock(&mutex); return count, lines 342-344.
WriteReturn(w) ==
  /\ pc[w] = "w_finally"
  /\ mutex' = 0
  /\ pc' = [pc EXCEPT ![w] = "done"]
  /\ UNCHANGED <<wake, shared, locals, history, env>>

----------------------------------------------------------------------------
(* initH2O and exitH2O.  Neither takes the mutex, and the handlers can be   *)
(* called from register_chrdev (line 154) on: the steps after m_init, and   *)
(* exitH2O, can fall between two steps of a call.                           *)

\* oxygens = 0; hydrogens = 0; in = out = size = 0, lines 160-162.
InitCounters ==
  /\ stage = "registered"
  /\ oxygens' = 0
  /\ hydrogens' = 0
  /\ in' = 0
  /\ out' = 0
  /\ size' = 0
  /\ stage' = "counted"
  /\ UNCHANGED <<pc, mutex, wake, bufferH2O, locals, history, callers, signals, faults, unloads, early, freed>>

\* m_init(&mutex) and the three c_init, lines 163-166: the mutex is free.  No
\* caller is in a handler yet (Lock), so nobody sleeps on the conditions.
InitKMutex ==
  /\ stage = "counted"
  /\ mutex' = 0
  /\ stage' = "kinit"
  /\ UNCHANGED <<pc, wake, shared, locals, history, callers, signals, faults, unloads, early, freed>>

\* bufferH2O = kmalloc(MAX_SIZE, GFP_KERNEL), lines 169-174: a block the
\* program has not written yet, or NULL, and then initH2O calls exitH2O (which
\* has no block to free) and returns -ENOMEM.
InitAlloc ==
  /\ stage = "kinit"
  /\ \/ bufferH2O' = JunkBlock /\ stage' = "alloced"
     \/ bufferH2O' = NULL /\ stage' = "failed"
  /\ UNCHANGED <<pc, mutex, wake, hydrogens, oxygens, in, out, size, locals, history, callers, signals, faults, unloads, early, freed>>

\* memset(bufferH2O, 0, MAX_SIZE), line 175.
InitMemset ==
  /\ stage = "alloced"
  /\ bufferH2O' = [i \in Cells |-> 0]
  /\ stage' = "done"
  /\ UNCHANGED <<pc, mutex, wake, hydrogens, oxygens, in, out, size, locals, history, callers, signals, faults, unloads, early, freed>>

\* exitH2O at module unload, lines 181-193: kfree(bufferH2O).  It takes no
\* lock and wakes nobody, the pointer is not cleared, and nothing keeps it from
\* running while calls are in progress (pH2OFileOperations sets no owner).
\* kfree may leave the block as it was or write over any part of it.
ExitH2O ==
  /\ unloads
  /\ stage = "done"
  /\ ~freed
  /\ freed' = TRUE
  /\ bufferH2O' \in {Scribbled(bufferH2O, s) : s \in SUBSET Cells}
  /\ UNCHANGED <<pc, mutex, wake, hydrogens, oxygens, in, out, size, locals, history, callers, signals, faults, unloads, early, stage>>

\* The freed block is reused: the allocator or the block's new owner stores
\* into a cell of it, and the handlers still running read and write the block
\* through bufferH2O.
Reuse(i) ==
  /\ freed
  /\ bufferH2O[i] # Junk
  /\ bufferH2O' = Scribbled(bufferH2O, {i})
  /\ UNCHANGED <<pc, mutex, wake, hydrogens, oxygens, in, out, size, locals, history, env>>

----------------------------------------------------------------------------
(* The system *)

\* The state of a module that has just been loaded, before any call: the
\* statics are zero, no caller is in a handler.
Loaded ==
  /\ pc = [t \in Threads |-> "idle"]
  /\ mutex = 0
  /\ wake = [t \in Threads |-> "awake"]
  /\ hydrogens = 0
  /\ oxygens = 0
  /\ in = 0
  /\ out = 0
  /\ size = 0
  /\ count = [t \in Threads |-> 0]
  /\ k = [t \in Threads |-> 0]
  /\ got = [t \in Threads |-> <<>>]
  /\ subs = <<>>
  /\ stream = <<>>
  /\ order = <<>>
  /\ mol = [t \in Threads |-> <<>>]
  /\ pairs = 0
  /\ swept = [t \in Threads |-> FALSE]
  /\ freed = FALSE

\* The state when register_chrdev has returned (line 154) and the handlers
\* can be called: bufferH2O is still NULL.
Registering ==
  /\ Loaded
  /\ bufferH2O = NULL
  /\ stage = "registered"

\* The state initH2O leaves (lines 160-166, 175) when no call was made
\* before it returned.
InitDriver ==
  /\ Loaded
  /\ bufferH2O = [i \in Cells |-> 0]
  /\ stage = "done"

\* The inputs of the calls: every writer submits a payload of the same length,
\* every reader asks for the same number of bytes.
Args ==
  {[t \in Threads |-> IF t \in Writers THEN Payload(t, p) ELSE q] :
     p \in 1..MaxPayload, q \in ReadLens}

\* The callers of the runs in which the module is unloaded: all the writers
\* but the last and all the readers but the last.
UnloadCallers ==
  (1..(NumWriters - 1)) \cup ((NumWriters + 1)..(NumWriters + NumReaders - 1))

FirstReader == NumWriters + 1

\* The callers of the runs in which calls are made while initH2O is still
\* running: all the writers, or two writers and two readers.
EarlyCallers == {Writers, {1, 2, FirstReader, FirstReader + 1}}

\* Every caller makes its call with the module loaded throughout, signals are
\* delivered and user buffers may be invalid; or the callers of UnloadCallers
\* make theirs and exitH2O may run at any moment; or the calls start while
\* initH2O is still running, from line 154 on.
Init ==
  /\ arg \in Args
  /\ \/ /\ InitDriver
        /\ callers = Threads
        /\ unloads = FALSE
        /\ early = FALSE
        /\ signals = TRUE
        /\ faults = TRUE
     \/ /\ InitDriver
        /\ callers = UnloadCallers
        /\ unloads = TRUE
        /\ early = FALSE
        /\ signals = FALSE
        /\ faults = FALSE
     \/ /\ Registering
        /\ callers \in EarlyCallers
        /\ unloads = FALSE
        /\ early = TRUE
        /\ signals = FALSE
        /\ faults = FALSE

ReadStep(r) ==
  \/ ReadRegister(r) \/ ReadGate(r) \/ ReadCopy(r) \/ ReadCount(r)
  \/ ReadFinally(r) \/ ReadReturn(r)

WriteStep(w) ==
  \/ WriteGate(w) \/ WriteCopy(w) \/ WriteCount(w) \/ WriteSubmit(w)
  \/ WriteWaitH(w) \/ WriteWaitO(w) \/ WritePair(w) \/ WriteDecrement(w)
  \/ WriteReturn(w)

\* The steps in which a caller takes the mutex.
ReadAcquire(r) == ReadLock(r) \/ ReadWake(r)
WriteAcquire(w) == WriteLock(w) \/ WriteWakeM(w) \/ WriteWakeH(w) \/ WriteWakeC(w)

Next ==
  \/ \E r \in Readers : ReadStep(r) \/ ReadAcquire(r)
  \/ \E w \in Writers : WriteStep(w) \/ WriteAcquire(w)
  \/ \E t \in Threads : Cancel(t)
  \/ InitCounters
  \/ InitKMutex
  \/ InitAlloc
  \/ InitMemset
  \/ ExitH2O
  \/ \E i \in Cells : Reuse(i)

Spec == Init /\ [][Next]_vars

----------------------------------------------------------------------------
(* Scheduling: a runnable caller runs, and a caller waiting for the mutex   *)
(* gets it (the kernel semaphore under m_lock queues its waiters).          *)

\* The environments of the fair runs: which callers arrive, whether signals
\* are delivered and whether user buffers may be invalid.
Plans ==
  {(1..i) \cup ((NumWriters + 1)..(NumWriters + j)) :
     i \in 0..NumWriters, j \in 0..NumReaders}

LiveInit ==
  /\ arg \in Args
  /\ callers \in Plans
  /\ signals \in BOOLEAN
  /\ faults \in BOOLEAN
  /\ unloads \in BOOLEAN
  /\ early \in BOOLEAN
  /\ unloads => callers \subseteq UnloadCallers
  /\ early => (callers \in EarlyCallers /\ ~signals /\ ~faults /\ ~unloads)
  /\ IF early THEN Registering ELSE InitDriver

Fairness ==
  /\ \A r \in Readers : WF_vars(ReadStep(r)) /\ SF_vars(ReadAcquire(r))
  /\ \A w \in Writers : WF_vars(WriteStep(w)) /\ SF_vars(WriteAcquire(w))

LiveSpec == LiveInit /\ [][Next]_vars /\ Fairness

----------------------------------------------------------------------------
(* Vocabulary of the properties *)

Returned(t) == pc[t] = "done"
\* The runs in which initH2O has returned before the first call and exitH2O
\* does not run.
Orderly == ~early /\ ~unloads
\* The reads that returned a byte count, and the calls no longer running.
ReadOK == {r \in Readers : Returned(r) /\ count[r] >= 0}
Quiescent == \A t \in Threads : pc[t] \in {"idle", "done"}
NoErrors == \A t \in Threads : count[t] >= 0
\* The readers that have executed oxygens++.
Registered == {r \in Readers : pc[r] \notin {"idle", "r_reg"}}
\* The writers that have executed hydrogens++.
Submitted == {subs[i] : i \in 1..Len(subs)}
CancelledReads == {r \in Readers : Returned(r) /\ count[r] = EINTR}
CancelledWrites == {w \in Writers : Returned(w) /\ count[w] = EINTR}
\* The bytes the buffer holds for the readers, oldest first.
Buffered ==
  IF bufferH2O = NULL THEN <<>>
  ELSE [i \in 1..Min(size, MAX_SIZE) |-> bufferH2O[(out + i - 1) % MAX_SIZE]]
\* The writer a payload byte comes from.
Owner(b) == b \div 10

RECURSIVE ConcatGot(_)
\* The bytes the readers rs copied, one reader after the other.
ConcatGot(rs) ==
  IF rs = <<>> THEN <<>> ELSE got[Head(rs)] \o ConcatGot(Tail(rs))

----------------------------------------------------------------------------
(* Properties *)

\* C1: two hydrogen submissions are spent per successful request.  In an
\* orderly run (the calls come after initH2O and before exitH2O), once no call
\* is running and none was cancelled or failed, with k reads returned
\* successfully, 2k submissions are no longer counted in hydrogens and every
\* registered oxygen has been taken off oxygens.
C1_TwoHydrogensPerMolecule ==
  (Orderly /\ Quiescent /\ NoErrors) =>
     /\ Len(subs) - hydrogens = 2 * Cardinality(ReadOK)
     /\ oxygens = Cardinality(Registered) - Cardinality(ReadOK)

\* C2: a reader that has left its wait loop and copies bytes sees
\* hydrogens >= 2, and no read gets past its loop before two writers have
\* copied their payload and incremented hydrogens.
C2_ReadNeedsTwoHydrogens ==
  \A r \in Readers :
     /\ pc[r] \in {"r_copy", "r_size"} => hydrogens >= 2
     /\ (\/ pc[r] \in {"r_copy", "r_size"}
         \/ (pc[r] \in {"r_finally", "r_unlock", "done"} /\ count[r] >= 0))
          => Len(subs) >= 2

\* A read has returned bytes it copied.
C2_Witness ==
  \E r \in Readers : Returned(r) /\ count[r] > 0 /\ Len(got[r]) = count[r]

\* The scenario of C3 and C4: two writers and one reader arrive after initH2O
\* has returned, no signal is delivered, every user buffer is valid and the
\* module stays loaded.
TwoWritesOneRead ==
  /\ callers = {1, 2, FirstReader}
  /\ ~signals
  /\ ~faults
  /\ ~unloads
  /\ ~early

\* C3: with writes of 'x' and 'y' (in that order) and one read of 2 bytes, all
\* three calls eventually return, the read returns "xy", and the counters end at 0.
C3_ScenarioXY ==
  (TwoWritesOneRead /\ arg[FirstReader] = 2)
    => <>(/\ \A t \in callers : Returned(t)
          /\ got[FirstReader] = <<Byte(1, 1), Byte(2, 1)>>
          /\ count[FirstReader] = 2
          /\ hydrogens = 0
          /\ oxygens = 0)

\* C4: a read that arrived before any write and is blocked returns once two
\* writes have made their submissions: from any moment at which the reader is
\* in its call and no writer has entered its own, whenever the reader is asleep
\* in its wait loop with two submissions made, it eventually returns.
C4_BlockedReadReturns ==
  TwoWritesOneRead
    => []((pc[FirstReader] # "idle" /\ \A w \in Writers : pc[w] = "idle")
          => []((pc[FirstReader] = "r_sleepH" /\ Len(subs) >= 2)
                => <>Returned(FirstReader)))

\* C5: in an orderly run, the bytes handed to the readers, in the order the
\* reads copied them (a read that failed counts with the bytes it had copied),
\* are a prefix of the bytes stored by the writers, in the order they were
\* stored.
C5_Fifo == Orderly => IsPrefix(ConcatGot(order), stream)

\* C6: in an orderly run, a successful read returns the payloads of the two
\* hydrogen submissions of its molecule, in submission order, cut to ucount
\* bytes.
C6_MoleculeBytes ==
  Orderly => \A r \in ReadOK : got[r] = Take(ConcatPayloads(mol[r]), arg[r])

\* C7: in an orderly run, when the mutex is free or a caller has just taken
\* it, the pairing conditions do not hold for a molecule whose reader has
\* already been served.
C7_PairingAtomic ==
  (/\ Orderly
   /\ mutex = 0 \/ \E t \in Threads : mutex = t /\ pc[t] \in {"r_reg", "w_gate"}
   /\ Cardinality(ReadOK) > pairs)
    => ~(hydrogens >= 2 /\ oxygens >= 1)

\* C8: the counters are never negative.
C8_CountersNonNegative == hydrogens >= 0 /\ oxygens >= 0

\* A writer has paired with one hydrogen left, after a cancelled call returned.
C8_Witness ==
  /\ \E t \in Threads : Returned(t) /\ count[t] = EINTR
  /\ pairs >= 2
  /\ hydrogens = 0

\* C9: in an orderly run, a cancelled read leaves oxygens as it was before the
\* read registered: oxygens counts the registered reads that were not
\* cancelled, less the pairings.
C9_CancelledReadUnregistered ==
  Orderly => oxygens = Cardinality(Registered) - Cardinality(CancelledReads) - pairs

\* C10: in an orderly run, a cancelled write leaves hydrogens and the buffer
\* as if it had not been made: hydrogens counts the submissions of the writes
\* that were not cancelled, less the pairings, and the buffer holds no byte of
\* a cancelled write.
C10_CancelledWriteUndone ==
  Orderly =>
    /\ hydrogens = Cardinality(Submitted \ CancelledWrites) - pairs
    /\ \A i \in 1..Len(Buffered) : Owner(Buffered[i]) \notin CancelledWrites

\* The writes that returned their byte count, and the reads that left their
\* wait loop (a cancelled read never does).
WriteOK == {w \in Writers : Returned(w) /\ count[w] >= 0}
Served == {order[i] : i \in 1..Len(order)}

\* C11: in an orderly run, a write returns without error only after a read
\* that was not cancelled has found hydrogens >= 2 and left its wait loop.
\* (The claim also asks that the read be served while the write is pending;
\* already no read at all need have been served.)
C11_WriteReturnsAfterMolecule ==
  Orderly => \A w \in WriteOK : Served # {}

\* C12: in an orderly run, the buffer never holds more bytes than its capacity.
C12_SizeWithinCapacity == Orderly => (0 <= size /\ size <= MAX_SIZE)

\* C13: a caller that has returned does not hold the mutex, whatever it
\* returned; with every call over, the mutex is free.
C13_LockReleased ==
  /\ \A t \in Threads : Returned(t) => mutex # t
  /\ (\A t \in Threads : Returned(t)) => mutex = 0

\* A call has returned -EINTR, another -EFAULT and another a byte count, and
\* the mutex has since been taken by a caller still in its handler.
C13_Witness ==
  /\ \E t \in Threads : Returned(t) /\ count[t] = EINTR
  /\ \E t \in Threads : Returned(t) /\ count[t] = EFAULT
  /\ \E t \in Threads : Returned(t) /\ count[t] >= 0
  /\ \E t \in Threads : mutex = t /\ ~Returned(t)

\* The writers past the entry gate whose hydrogen is not yet counted.
PastGate == {w \in Writers : pc[w] \in {"w_copy", "w_size", "w_inc"}}

WaitGuard(t) ==
  CASE pc[t] = "r_sleepH" -> NotEnoughHydrogens
    [] pc[t] = "w_sleepM" -> TooMuchHydrogen
    [] pc[t] = "w_sleepH" -> hydrogens < 2
    [] pc[t] = "w_sleepC" -> NoOxygen
    [] OTHER -> TRUE

\* C15: in an orderly run with the mutex free, no caller that no broadcast
\* has reached since it went to sleep is asleep in a wait loop whose guard is
\* false.
C15_NoLostWakeup ==
  (Orderly /\ mutex = 0) => \A t \in Threads : wake[t] = "asleep" => WaitGuard(t)

\* C16: in an orderly run, a caller that has returned -EINTR has issued a
\* c_broadcast between the cancelled c_wait and its m_unlock.
C16_CancelledCallerBroadcasts ==
  Orderly => \A t \in Threads : (Returned(t) /\ count[t] = EINTR) => swept[t]

\* The callers between the index update and the size update of a copy loop.
MidCopy == {t \in Threads : pc[t] \in {"r_size", "w_size"}}

RECURSIVE TotalGot(_)
\* The number of bytes the readers in rs have taken out of the buffer.
TotalGot(rs) ==
  IF rs = {} THEN 0
  ELSE LET r == CHOOSE x \in rs : TRUE IN Len(got[r]) + TotalGot(rs \ {r})

\* C17: a read past its hydrogen gate never waits again; until it unlocks, its
\* count is min(ucount, size) for the size it found (the present size plus the
\* k bytes it has taken); a read that returns a count has copied exactly that
\* many bytes; and every byte copied took one off size and moved out one place
\* forward modulo MAX_SIZE.
C17_ReadReturnsMin ==
  /\ \A r \in Served :
       /\ pc[r] \in {"r_copy", "r_size", "r_finally", "r_unlock", "done"}
       /\ (pc[r] # "done" /\ count[r] >= 0) =>
            /\ count[r] = Min(arg[r], size + k[r])
            /\ Len(got[r]) = IF pc[r] = "r_size" THEN k[r] + 1 ELSE k[r]
       /\ (pc[r] \notin {"r_copy", "r_size"} /\ count[r] >= 0) => Len(got[r]) = count[r]
  /\ LET taken == TotalGot(Readers)
     IN  /\ MidCopy = {} => size = Len(stream) - taken
         /\ out = taken % MAX_SIZE

\* One read has returned the ucount bytes it asked for and another, finding the
\* buffer empty, has returned 0 bytes.
C17_Witness ==
  /\ \E r \in ReadOK : count[r] = arg[r]
  /\ \E r \in ReadOK : count[r] = 0 /\ got[r] = <<>>

\* The writers that are past lines 333-338 on their way to a byte count, and
\* those that have incremented hydrogens and are not past those lines.
Paired == {w \in Writers : pc[w] \in {"w_finally", "done"} /\ count[w] >= 0}
Unpaired == Submitted \ Paired

\* C18: a writer that reaches the guard of line 333 finds it true; hydrogens
\* is at least the number of writers that have incremented and not decremented
\* it; and each write on its way to a byte count past lines 333-338 has run
\* the decrements of lines 335-336, once.
C18_WriterDecrementsOnce ==
  /\ \A w \in Writers : pc[w] = "w_pair" => Molecule
  /\ hydrogens >= Cardinality(Unpaired)
  /\ Cardinality(Paired) = pairs
  /\ hydrogens = Len(subs) - pairs
  /\ oxygens = Cardinality(Registered) - pairs

\* A writer is at the guard with one hydrogen left, after another writer
\* paired while it slept, and a write has returned its count.
C18_Witness ==
  /\ \E w \in Writers : pc[w] = "w_pair" /\ hydrogens = 1
  /\ WriteOK # {}

\* The steps of a writer cancelled in the wait of line 284: c_wait returns
\* nonzero to it, and it leaves through the finally block.
GateCancelStep(w) ==
  \/ /\ pc[w] = "w_sleepM"
     /\ wake[w] = "interrupted"
     /\ pc'[w] = "w_finally"
  \/ /\ pc[w] = "w_finally"
     /\ count[w] = EINTR
     /\ w \notin Submitted
     /\ pc'[w] = "done"

\* C19: a write cancelled while blocked at its entry gate returns -EINTR and
\* none of its steps changes hydrogens, oxygens, in, out, size or the buffer.
C19_GateCancelLeavesState ==
  [][\A w \in Writers :
       GateCancelStep(w) => (count'[w] = EINTR /\ shared' = shared)]_vars

\* A write cancelled at the gate has returned, with the quota still full and
\* the two submitted payloads in the buffer.
C19_Witness ==
  /\ \E w \in Writers : Returned(w) /\ count[w] = EINTR /\ w \notin Submitted
  /\ hydrogens = 2
  /\ size = 2

\* C20: whenever the mutex is free, in is size places after out around the
\* buffer, and both indices are inside it.
C20_IndexConsistency ==
  mutex = 0 =>
    /\ in = (out + size) % MAX_SIZE
    /\ 0 <= in /\ in < MAX_SIZE
    /\ 0 <= out /\ out < MAX_SIZE
    /\ size >= 0

\* The mutex is free after calls that returned -EINTR and -EFAULT, bytes have
\* been read, and more bytes have been written than the buffer holds, so that
\* both indices have moved and in has wrapped.
C20_Witness ==
  /\ mutex = 0
  /\ \E t \in Threads : Returned(t) /\ count[t] = EINTR
  /\ \E t \in Threads : Returned(t) /\ count[t] = EFAULT
  /\ Len(stream) > MAX_SIZE
  /\ TotalGot(Readers) > 0

====
